---- MODULE Spec2Model ----
(***************************************************************************)
(* Model of paasta_tools/vitess_tools.py: the VitessDeploymentConfig       *)
(* accessors, its validate method, load_vitess_instance_config and cr_id.  *)
(*                                                                         *)
(* Python strings are sequences of pieces: names and registrations are     *)
(* spelt character by character, so that concatenation, splitting and      *)
(* sanitising are computed; literals of the source are single pieces.      *)
(* Configuration values are tagged: [t |-> "int" | "str" | "list" | "map", *)
(* v |-> the value]; a configuration dict is a function whose DOMAIN is    *)
(* the set of keys it holds.                                               *)
(***************************************************************************)
EXTENDS Integers, Sequences, FiniteSets, TLC

VARIABLES
    obj,              \* the VitessDeploymentConfig under test (its fields)
    validate_default, \* the list object bound to validate's default params
    last,             \* the most recent call: what was called, returned, logged
    probe,            \* an earlier call remembered for comparison
    soa,              \* the configuration store and the deployments index
    load              \* the outcome of load_vitess_instance_config

vars == <<obj, validate_default, last, probe, soa, load>>

-----------------------------------------------------------------------------
(* Bounds of the model *)

\* longest "registrations" list drawn for a config
MaxRegs == 2

-----------------------------------------------------------------------------
(* Values *)

None == [t |-> "none"]
IntV(n) == [t |-> "int", v |-> n]
StrV(s) == [t |-> "str", v |-> s]
ListV(l) == [t |-> "list", v |-> l]
MapV(m) == [t |-> "map", v |-> m]

\* dict.get(key, default)
DictGet(d, key, default) == IF key \in DOMAIN d THEN d[key] ELSE default

\* s.split(sep): the list of the pieces of s between occurrences of sep
RECURSIVE Split(_, _)
Split(s, sep) ==
    IF \A i \in 1..Len(s) : s[i] # sep
    THEN <<s>>
    ELSE LET i == CHOOSE j \in 1..Len(s) :
                      s[j] = sep /\ \A k \in 1..(j - 1) : s[k] # sep
         IN  <<SubSeq(s, 1, i - 1)>> \o Split(SubSeq(s, i + 1, Len(s)), sep)

-----------------------------------------------------------------------------
(* Module-level constants of vitess_tools.py *)

KUBERNETES_NAMESPACE == <<"paasta-vitess">>

config_filename_prefix == <<"vitess">>

\* the literal default of validate's params
VALIDATE_PARAMS == <<"cpus", "security", "dependencies_reference", "deploy_group">>

\* the default of config_dict.get("replicas", 1)
DefaultReplicas == 1

-----------------------------------------------------------------------------
(* Collaborators imported by vitess_tools.py (paasta_tools.utils,          *)
(* paasta_tools.kubernetes_tools, long_running_service_tools)              *)

SPACER == "."

\* compose_job_id(name, instance): the two parts joined by the separator
compose_job_id(name, instance) == name \o <<SPACER>> \o instance

\* decompose_job_id(job_id) raises InvalidJobNameError unless the string has
\* the separator structure "<service>.<namespace>"
raises_InvalidJobNameError(job_id) == Len(Split(job_id, SPACER)) # 2

\* one character of sanitise_kubernetes_name: lower case, "_" becomes "--"
SanitiseChar(c) ==
    CASE c = "_" -> <<"-", "-">>
      [] c = "H" -> <<"h">>
      [] c = "S" -> <<"s">>
      [] OTHER   -> <<c>>

RECURSIVE sanitise_kubernetes_name(_)
sanitise_kubernetes_name(name) ==
    IF name = <<>> THEN <<>>
    ELSE SanitiseChar(Head(name)) \o sanitise_kubernetes_name(Tail(name))

sanitised_cr_name(service, instance) ==
    sanitise_kubernetes_name(service) \o <<"-">> \o sanitise_kubernetes_name(instance)

\* one named check of the base validation: the violation message, if any
check_msg(param) == <<param, " is missing">>

check_passed(self, param) == param \in DOMAIN self.config_dict

\* InstanceConfig.validate(params): every check runs, in the order of params,
\* and the messages of the failed ones are collected
RECURSIVE super_validate(_, _)
super_validate(self, params) ==
    IF params = <<>> THEN <<>>
    ELSE (IF check_passed(self, Head(params)) THEN <<>> ELSE <<check_msg(Head(params))>>)
         \o super_validate(self, Tail(params))

-----------------------------------------------------------------------------
(* class VitessDeploymentConfig.  A method is modelled by the record of    *)
(* what one call does: ret (the value returned), logged (the log.error     *)
(* messages emitted, in order) and self (the object's fields afterwards).  *)

\* __init__: the fields the base class stores
VitessDeploymentConfig(service, cluster, instance, config_dict, branch_dict) ==
    [service |-> service, cluster |-> cluster, instance |-> instance,
     config_dict |-> config_dict, branch_dict |-> branch_dict]

get_service(self) == self.service

get_instance(self) == self.instance

\* get_service_name_smartstack built from the service name instead
get_service_name_smartstack_service(self) == <<"vitess_">> \o get_service(self)

get_service_name_smartstack(self) ==
    <<"vitess_">> \o get_instance(self)

get_nerve_namespace(self) == <<"main">>

\* the message of the log.error call in get_registrations
registration_error(registration, service) ==
    <<"Provided registration ">> \o registration \o <<" for service ">>
        \o service \o <<" is invalid">>

\* the for loop leaving at the first rejected entry
RECURSIVE check_registrations_break(_, _, _)
check_registrations_break(self, registrations, i) ==
    IF i > Len(registrations) THEN <<>>
    ELSE IF raises_InvalidJobNameError(registrations[i])
         THEN <<registration_error(registrations[i], self.service)>>
         ELSE check_registrations_break(self, registrations, i + 1)

\* the for loop of get_registrations over the entries from index i on
RECURSIVE check_registrations(_, _, _)
check_registrations(self, registrations, i) ==
    IF i > Len(registrations) THEN <<>>
    ELSE (IF raises_InvalidJobNameError(registrations[i])
          THEN <<registration_error(registrations[i], self.service)>>
          ELSE <<>>)
         \o check_registrations(self, registrations, i + 1)

\* get_registrations dropping the entries it rejected
get_registrations_filtering(self) ==
    LET registrations == DictGet(self.config_dict, "registrations", ListV(<<>>)).v
        kept == SelectSeq(registrations, LAMBDA e : ~raises_InvalidJobNameError(e))
    IN  [ret    |-> IF kept # <<>>
                    THEN kept
                    ELSE <<compose_job_id(get_service_name_smartstack(self),
                                          <<"main">>)>>,
         logged |-> check_registrations(self, registrations, 1),
         self   |-> self]

get_registrations(self) ==
    LET registrations == DictGet(self.config_dict, "registrations", ListV(<<>>)).v
    IN  [ret    |-> IF registrations # <<>>
                    THEN registrations
                    ELSE <<compose_job_id(get_service_name_smartstack(self),
                                          <<"main">>)>>,
         logged |-> check_registrations(self, registrations, 1),
         self   |-> self]

get_kubernetes_namespace(self) ==
    [ret |-> KUBERNETES_NAMESPACE, logged |-> <<>>, self |-> self]

\* get_instances honouring the configured value only under with_limit
get_instances_limit_only(self, with_limit) ==
    [ret    |-> IF with_limit
                THEN DictGet(self.config_dict, "replicas", IntV(DefaultReplicas)).v
                ELSE DefaultReplicas,
     logged |-> <<>>,
     self   |-> self]

get_instances(self, with_limit) ==
    [ret    |-> DictGet(self.config_dict, "replicas", IntV(DefaultReplicas)).v,
     logged |-> <<>>,
     self   |-> self]

\* get_bounce_method caching its answer in the config_dict
get_bounce_method_caching(self) ==
    [ret    |-> <<"crossover">>,
     logged |-> <<>>,
     self   |-> [self EXCEPT !.config_dict =
                    [k \in DOMAIN self.config_dict \cup {"bounce_method"} |->
                        IF k = "bounce_method" THEN StrV(<<"crossover">>)
                        ELSE self.config_dict[k]]]]

get_bounce_method(self) ==
    [ret |-> <<"crossover">>, logged |-> <<>>, self |-> self]

get_sanitised_service_name(self) ==
    [ret |-> sanitise_kubernetes_name(get_service(self)), logged |-> <<>>, self |-> self]

get_sanitised_instance_name(self) ==
    [ret |-> sanitise_kubernetes_name(get_instance(self)), logged |-> <<>>, self |-> self]

get_sanitised_deployment_name(self) == get_sanitised_instance_name(self)

\* validate returning the base messages without the instance prefix
validate_unprefixed(self, params) ==
    [ret    |-> super_validate(self, params),
     logged |-> <<>>,
     self   |-> self,
     params |-> params]

\* validate(params): params is the list object the call received (the default
\* one when the caller passed none); the record also says what that list
\* holds afterwards
validate(self, params) ==
    LET error_msgs == super_validate(self, params)
        name == get_instance(self)
    IN  [ret    |-> IF error_msgs # <<>>
                    THEN [k \in 1..Len(error_msgs) |->
                              name \o <<":", " ">> \o error_msgs[k]]
                    ELSE <<>>,
         logged |-> <<>>,
         self   |-> self,
         params |-> params]

-----------------------------------------------------------------------------
(* cr_id *)

\* cr_id placed in the namespace of the plain kubernetes workloads
cr_id_paasta_namespace(service, instance) ==
    [group     |-> <<"yelp.com">>,
     version   |-> <<"v1alpha1">>,
     namespace |-> <<"paasta">>,
     plural    |-> <<"vitess">>,
     name      |-> sanitised_cr_name(service, instance)]

cr_id(service, instance) ==
    [group     |-> <<"yelp.com">>,
     version   |-> <<"v1alpha1">>,
     namespace |-> KUBERNETES_NAMESPACE,
     plural    |-> <<"vitess">>,
     name      |-> sanitised_cr_name(service, instance)]

-----------------------------------------------------------------------------
(* The configuration store and the deployments index, as the loader's      *)
(* collaborators see them.  soa describes the directory of one service:    *)
(* general is its service-level configuration, files maps a configuration  *)
(* kind (the prefix of "<kind>-<cluster>.yaml") to the instances that file *)
(* defines, deployments is the index of deployments.json.                  *)

\* service_configuration_lib.read_service_configuration(service)
read_service_configuration(store, service) ==
    IF service = store.service THEN store.general ELSE <<>>

\* the instances defined by the file "<instance_type>-<cluster>.yaml"
instance_file(store, service, instance_type, cluster) ==
    IF service = store.service /\ cluster = store.cluster
       /\ instance_type \in DOMAIN store.files
    THEN store.files[instance_type]
    ELSE <<>>

\* load_service_instance_config: the entry of the instance in that file;
\* it raises when the file does not define the instance
load_service_instance_config(store, service, instance, instance_type, cluster) ==
    LET file == instance_file(store, service, instance_type, cluster)
    IN  IF instance \in DOMAIN file
        THEN [raised |-> FALSE, ret |-> file[instance]]
        ELSE [raised |-> TRUE, ret |-> None]

\* deep_merge_dictionaries(overrides, defaults)
RECURSIVE deep_merge_dictionaries(_, _)
deep_merge_dictionaries(overrides, defaults) ==
    [k \in DOMAIN overrides \cup DOMAIN defaults |->
        IF k \notin DOMAIN overrides THEN defaults[k]
        ELSE IF k \notin DOMAIN defaults THEN overrides[k]
        ELSE IF overrides[k].t = "map" /\ defaults[k].t = "map"
             THEN MapV(deep_merge_dictionaries(overrides[k].v, defaults[k].v))
             ELSE overrides[k]]

\* load_v2_deployments_json(service)
load_v2_deployments_json(store, service) ==
    IF service = store.service THEN store.deployments ELSE <<>>

\* DeploymentsJson.get_branch_dict: the entry under the composite key, or
\* the absent result when there is none
get_branch_dict(deployments_json, service, branch, deploy_group) ==
    DictGet(deployments_json, <<service, branch, deploy_group>>, None)

\* InstanceConfig.get_branch
get_branch(self) == <<"paasta-">> \o self.cluster \o <<SPACER>> \o self.instance

\* the deploy group of an instance whose config names none
default_deploy_group(self) == self.cluster \o <<SPACER>> \o self.instance

\* InstanceConfig.get_deploy_group
get_deploy_group(self) ==
    DictGet(self.config_dict, "deploy_group",
            StrV(default_deploy_group(self))).v

-----------------------------------------------------------------------------
(* load_vitess_instance_config *)

\* the configuration kind passed to load_service_instance_config
instance_type_read == <<" vitesscluster">>

\* the merge with overrides and defaults exchanged
merge_general_config_swapped(general_config, instance_config) ==
    deep_merge_dictionaries(general_config, instance_config)

\* general_config after the merge
merge_general_config(general_config, instance_config) ==
    deep_merge_dictionaries(instance_config, general_config)

\* the lookup with the branch passed as the deploy group too
lookup_branch_dict_by_branch(store, service, cluster, instance, general_config) ==
    LET deployments_json == load_v2_deployments_json(store, service)
        temp_instance_config ==
            VitessDeploymentConfig(service, cluster, instance, general_config, None)
        branch == get_branch(temp_instance_config)
    IN  get_branch_dict(deployments_json, service, branch,
                        default_deploy_group(temp_instance_config))

\* the body of "if load_deployments": the branch_dict looked up for the
\* temporary config built from the merged general_config
lookup_branch_dict(store, service, cluster, instance, general_config) ==
    LET deployments_json == load_v2_deployments_json(store, service)
        temp_instance_config ==
            VitessDeploymentConfig(service, cluster, instance, general_config, None)
        branch == get_branch(temp_instance_config)
        deploy_group == get_deploy_group(temp_instance_config)
    IN  get_branch_dict(deployments_json, service, branch, deploy_group)

\* one call: raised (an exception left the function), ret (the object
\* returned), instance_type (the kind read) and deployments_reads (how often
\* the deployments index was loaded)
load_vitess_instance_config(store, service, instance, cluster, load_deployments) ==
    LET general_config == read_service_configuration(store, service)
        instance_config ==
            load_service_instance_config(store, service, instance,
                                         instance_type_read, cluster)
        merged == merge_general_config(general_config, instance_config.ret)
        branch_dict ==
            IF load_deployments
            THEN lookup_branch_dict(store, service, cluster, instance, merged)
            ELSE None
    IN  IF instance_config.raised
        THEN [raised |-> TRUE, ret |-> None,
              instance_type |-> instance_type_read, deployments_reads |-> 0]
        ELSE [raised |-> FALSE,
              ret |-> VitessDeploymentConfig(service, cluster, instance,
                                             merged, branch_dict),
              instance_type |-> instance_type_read,
              deployments_reads |-> IF load_deployments THEN 1 ELSE 0]

-----------------------------------------------------------------------------
(* Inputs *)

Services == {<<"d","b">>, <<"S","_","q">>}

Instances == {<<"h","1">>, <<"H","_","x">>}

Clusters == {<<"c","1">>}

\* registration strings: one well formed, one with no separator, one with
\* too many
RegEntries == {<<"a",".","b">>, <<"a","b">>, <<"a",".","b",".","c">>}

RegLists == UNION {[1..n -> RegEntries] : n \in 0..MaxRegs}

Absent == [t |-> "absent"]

\* the dict holding the keys of full whose value is not Absent
Present(full) == [k \in {x \in DOMAIN full : full[x] # Absent} |-> full[k]]

\* the config_dicts an object is constructed with
ObjConfigs ==
    { Present([replicas |-> r, registrations |-> g, cpus |-> c, security |-> s,
               dependencies_reference |-> d, deploy_group |-> dg]) :
        r \in {Absent, IntV(2), IntV(5)},
        g \in {Absent} \cup {ListV(l) : l \in RegLists},
        c \in {Absent, IntV(1)},
        s \in {Absent, StrV(<<"seccomp">>)},
        d \in {Absent, StrV(<<"ref">>)},
        dg \in {Absent, StrV(<<"dg1">>)} }

\* the branch_dict an object is constructed with
BranchDicts == {[docker_image |-> <<"img">>, desired_state |-> <<"start">>]}

\* params lists a caller passes to validate
SuppliedParams == {<<>>, <<"security">>, <<"deploy_group", "cpus">>}

NoCall == [name |-> "none", args |-> <<>>]

NoResult == [call |-> NoCall, ret |-> None, logged |-> <<>>]

Idle == [status |-> "idle"]

-----------------------------------------------------------------------------
(* The life of one VitessDeploymentConfig: constructed, then queried *)

Init ==
    /\ obj \in { VitessDeploymentConfig(s, c, i, cfg, b) :
                   s \in Services, c \in Clusters, i \in Instances,
                   cfg \in ObjConfigs, b \in BranchDicts }
    /\ validate_default = VALIDATE_PARAMS
    /\ last = NoResult
    /\ probe = NoResult
    /\ soa = None
    /\ load = Idle

\* a call returns: the object is what the method left, the caller sees the
\* value and the log
Invoke(name, args, r) ==
    /\ obj' = r.self
    /\ last' = [call |-> [name |-> name, args |-> args],
                ret |-> r.ret, logged |-> r.logged]
    /\ UNCHANGED <<soa, load>>

Call_get_registrations ==
    /\ Invoke("get_registrations", <<>>, get_registrations(obj))
    /\ UNCHANGED <<validate_default, probe>>

Call_get_instances ==
    \E with_limit \in BOOLEAN :
        /\ Invoke("get_instances", <<with_limit>>, get_instances(obj, with_limit))
        /\ UNCHANGED <<validate_default, probe>>

Call_get_kubernetes_namespace ==
    /\ Invoke("get_kubernetes_namespace", <<>>, get_kubernetes_namespace(obj))
    /\ UNCHANGED <<validate_default, probe>>

Call_get_bounce_method ==
    /\ Invoke("get_bounce_method", <<>>, get_bounce_method(obj))
    /\ UNCHANGED <<validate_default, probe>>

Call_get_sanitised_service_name ==
    /\ Invoke("get_sanitised_service_name", <<>>, get_sanitised_service_name(obj))
    /\ UNCHANGED <<validate_default, probe>>

Call_get_sanitised_instance_name ==
    /\ Invoke("get_sanitised_instance_name", <<>>, get_sanitised_instance_name(obj))
    /\ UNCHANGED <<validate_default, probe>>

Call_get_sanitised_deployment_name ==
    /\ Invoke("get_sanitised_deployment_name", <<>>,
              get_sanitised_deployment_name(obj))
    /\ UNCHANGED <<validate_default, probe>>

\* validate() binds params to the default list object, validate(p) to p
Call_validate ==
    \E p \in {None} \cup {ListV(l) : l \in SuppliedParams} :
        LET r == validate(obj, IF p = None THEN validate_default ELSE p.v)
        IN  /\ Invoke("validate", <<p>>, r)
            /\ validate_default' = IF p = None THEN r.params ELSE validate_default
            /\ UNCHANGED probe

Next ==
    \/ Call_get_registrations
    \/ Call_get_instances
    \/ Call_get_kubernetes_namespace
    \/ Call_get_bounce_method
    \/ Call_get_sanitised_service_name
    \/ Call_get_sanitised_instance_name
    \/ Call_get_sanitised_deployment_name
    \/ Call_validate

Spec == Init /\ [][Next]_vars

-----------------------------------------------------------------------------
(* cr_id called between the calls on an object; any cr_id call may be the  *)
(* one remembered (probe) for comparison with a later one                  *)

InitCrId ==
    /\ obj \in { VitessDeploymentConfig(s, c, i, cfg, None) :
                   s \in Services, c \in Clusters, i \in Instances,
                   cfg \in { Present([replicas |-> r, registrations |-> g]) :
                               r \in {Absent, IntV(5)},
                               g \in {Absent, ListV(<<<<"a","b">>>>)} } }
    /\ validate_default = VALIDATE_PARAMS
    /\ last = NoResult
    /\ probe = NoResult
    /\ soa = None
    /\ load = Idle

Call_cr_id ==
    \E service \in Services, instance \in Instances, keep \in BOOLEAN :
        /\ Invoke("cr_id", <<service, instance>>,
                  [ret |-> cr_id(service, instance), logged |-> <<>>, self |-> obj])
        /\ probe' = IF keep THEN last' ELSE probe
        /\ UNCHANGED validate_default

NextCrId ==
    \/ Call_cr_id
    \/ Call_get_registrations
    \/ Call_get_instances
    \/ Call_get_kubernetes_namespace
    \/ Call_get_bounce_method
    \/ Call_get_sanitised_service_name
    \/ Call_get_sanitised_instance_name
    \/ Call_get_sanitised_deployment_name
    \/ Call_validate

SpecCrId == InitCrId /\ [][NextCrId]_vars

-----------------------------------------------------------------------------
(* load_vitess_instance_config against a configuration store *)

\* the service and cluster whose directory the store describes
StoreService == <<"d","b">>

StoreCluster == <<"c","1">>

\* the instance the store's files define
StoreInstance == <<"h","1">>

\* service-level configurations (the defaults)
GeneralConfigs ==
    { Present([deploy_group |-> dg, replicas |-> r, registrations |-> g, env |-> e]) :
        dg \in {Absent, StrV(<<"dg1">>), StrV(<<"dg2">>)},
        r \in {Absent, IntV(2)},
        g \in {Absent, ListV(<<<<"a",".","b">>>>)},
        e \in {Absent, IntV(7),
               MapV(Present([a |-> IntV(1), b |-> IntV(2), c |-> Absent]))} }

\* instance-level configurations (the overrides)
InstanceConfigs ==
    { Present([deploy_group |-> dg, replicas |-> r, registrations |-> g, env |-> e]) :
        dg \in {Absent, StrV(<<"dg1">>), StrV(<<"dg2">>)},
        r \in {Absent, IntV(5)},
        g \in {Absent, ListV(<<<<"c",".","d">>, <<"a","b">>>>)},
        e \in {Absent, IntV(9), MapV(<<>>),
               MapV(Present([a |-> Absent, b |-> IntV(3), c |-> IntV(4)]))} }

\* the file of one configuration kind: it defines StoreInstance or nothing
Files(configs) == {<<>>} \cup {[i \in {StoreInstance} |-> cfg] : cfg \in configs}

\* the record deployments.json holds for a deploy group
BranchDictOf(deploy_group) ==
    [docker_image |-> <<"img-">> \o deploy_group, desired_state |-> <<"start">>]

\* the keys deployments.json may hold for StoreInstance
IndexKeys ==
    { <<StoreService,
        <<"paasta-">> \o StoreCluster \o <<SPACER>> \o StoreInstance,
        dg>> :
        dg \in {<<"dg1">>, <<"dg2">>, StoreCluster \o <<SPACER>> \o StoreInstance} }

DeploymentsIndexes ==
    { [k \in D |-> BranchDictOf(k[3])] : D \in SUBSET IndexKeys }

Stores ==
    { [service |-> StoreService, cluster |-> StoreCluster, general |-> g,
       files |-> [kind \in {config_filename_prefix, instance_type_read} |->
                     IF kind = config_filename_prefix THEN fv ELSE fc],
       deployments |-> d] :
        g \in GeneralConfigs,
        fv \in Files({<<>>, Present([replicas |-> IntV(3), deploy_group |-> Absent])}),
        fc \in Files(InstanceConfigs),
        d \in DeploymentsIndexes }

InitLoad ==
    /\ soa \in Stores
    /\ load = Idle
    /\ obj = None
    /\ validate_default = VALIDATE_PARAMS
    /\ last = NoResult
    /\ probe = NoResult

Load ==
    \E service \in Services, instance \in Instances, cluster \in Clusters,
       load_deployments \in BOOLEAN :
        /\ load' = [status |-> "done",
                    service |-> service, instance |-> instance,
                    cluster |-> cluster, load_deployments |-> load_deployments,
                    out |-> load_vitess_instance_config(soa, service, instance,
                                                        cluster, load_deployments)]
        /\ UNCHANGED <<soa, obj, validate_default, last, probe>>

NextLoad == Load

SpecLoad == InitLoad /\ [][NextLoad]_vars

-----------------------------------------------------------------------------
(* Properties of the accessors (specification Spec) *)

Called(name) == last.call.name = name

\* the configured "registrations" list, empty when the key is absent
ConfiguredRegistrations ==
    IF "registrations" \in DOMAIN obj.config_dict
    THEN obj.config_dict["registrations"].v
    ELSE <<>>

Range(seq) == {seq[k] : k \in DOMAIN seq}

\* C1: get_instances returns 1 when the config has no "replicas" key and the
\* configured value when it has one, whatever with_limit is.
C1_ReplicaCount ==
    Called("get_instances") =>
        /\ last.call.args \in {<<TRUE>>, <<FALSE>>}
        /\ "replicas" \notin DOMAIN obj.config_dict => last.ret = 1
        /\ "replicas" \in DOMAIN obj.config_dict =>
               last.ret = obj.config_dict["replicas"].v

C1_Witness ==
    /\ Called("get_instances")
    /\ last.call.args = <<FALSE>>
    /\ "replicas" \in DOMAIN obj.config_dict
    /\ last.ret = 5

\* C2: with "registrations" empty or absent, get_registrations returns the
\* one-element list [compose_job_id("vitess_" + instance, "main")] and logs
\* no error.
C2_DefaultRegistration ==
    (Called("get_registrations") /\ ConfiguredRegistrations = <<>>) =>
        /\ Len(last.ret) = 1
        /\ last.ret[1] = compose_job_id(<<"vitess_">> \o obj.instance, <<"main">>)
        /\ last.logged = <<>>

C2_Witness ==
    /\ Called("get_registrations")
    /\ "registrations" \in DOMAIN obj.config_dict
    /\ ConfiguredRegistrations = <<>>
    /\ obj.instance = <<"H","_","x">>
    /\ last.ret = << <<"vitess_","H","_","x",".","main">> >>

\* C3: with a non-empty "registrations" list, get_registrations returns that
\* list unchanged and logs exactly one error per entry decompose_job_id
\* rejects, in the order of the entries, earlier rejections notwithstanding.
C3_ListUnchangedErrorsLogged ==
    (Called("get_registrations") /\ ConfiguredRegistrations # <<>>) =>
        LET rejected == SelectSeq(ConfiguredRegistrations,
                                  LAMBDA e : raises_InvalidJobNameError(e))
        IN  /\ last.ret = ConfiguredRegistrations
            /\ Len(last.logged) = Len(rejected)
            /\ \A k \in 1..Len(rejected) :
                   last.logged[k] = registration_error(rejected[k], obj.service)

C3_Witness ==
    /\ Called("get_registrations")
    /\ ConfiguredRegistrations = << <<"a","b">>, <<"a",".","b",".","c">> >>
    /\ Len(last.logged) = 2

\* C4 as stated: a rejected registration is not among the registrations
\* returned, the well-formed ones are.
C4_RejectedEntrySkipped ==
    (Called("get_registrations") /\ ConfiguredRegistrations # <<>>) =>
        /\ \A e \in Range(ConfiguredRegistrations) :
               raises_InvalidJobNameError(e) => e \notin Range(last.ret)
        /\ \A e \in Range(ConfiguredRegistrations) :
               ~raises_InvalidJobNameError(e) => e \in Range(last.ret)

\* C4 amended: a rejected registration is logged as an error and stays in
\* the returned list at its position; the well-formed entries are returned
\* too, and cause no error.
C4_RejectedEntryLoggedAndKept ==
    (Called("get_registrations") /\ ConfiguredRegistrations # <<>>) =>
        /\ Len(last.ret) = Len(ConfiguredRegistrations)
        /\ \A i \in 1..Len(ConfiguredRegistrations) :
               LET e == ConfiguredRegistrations[i]
               IN  /\ last.ret[i] = e
                   /\ raises_InvalidJobNameError(e) <=>
                          registration_error(e, obj.service) \in Range(last.logged)

C4_Witness ==
    /\ Called("get_registrations")
    /\ ConfiguredRegistrations = << <<"a","b">>, <<"a",".","b">> >>
    /\ Len(last.logged) = 1
    /\ <<"a","b">> \in Range(last.ret)

\* the params a validate call ran with
ValidatedParams ==
    IF last.call.args[1] = None THEN VALIDATE_PARAMS ELSE last.call.args[1].v

\* C5: validate returns, in order, one message per violation the base
\* validation reports for the params, each prefixed "<instance>: "; the
\* list is empty exactly when there is no violation; a config failing only
\* the security and cpus checks yields exactly two messages.
C5_ValidatePrefixesBaseMessages ==
    Called("validate") =>
        LET base == super_validate(obj, ValidatedParams)
        IN  /\ Len(last.ret) = Len(base)
            /\ \A k \in 1..Len(base) :
                   last.ret[k] = obj.instance \o <<":", " ">> \o base[k]
            /\ (last.ret = <<>>) <=> (base = <<>>)
            /\ (/\ last.call.args[1] = None
                /\ Range(VALIDATE_PARAMS) \ DOMAIN obj.config_dict = {"cpus", "security"})
               => /\ Len(last.ret) = 2
                  /\ \A k \in 1..2 :
                         SubSeq(last.ret[k], 1, Len(obj.instance) + 2)
                             = obj.instance \o <<":", " ">>

C5_Witness ==
    /\ Called("validate")
    /\ last.call.args[1] = None
    /\ Range(VALIDATE_PARAMS) \ DOMAIN obj.config_dict = {"cpus", "security"}
    /\ obj.instance = <<"h","1">>
    /\ last.ret = << <<"h","1",":"," ","cpus"," is missing">>,
                     <<"h","1",":"," ","security"," is missing">> >>

\* what every accessor returns for an object, with d the default params
AccessorResults(o, d) ==
    [get_registrations |-> get_registrations(o).ret,
     get_instances |-> <<get_instances(o, TRUE).ret, get_instances(o, FALSE).ret>>,
     get_kubernetes_namespace |-> get_kubernetes_namespace(o).ret,
     get_bounce_method |-> get_bounce_method(o).ret,
     get_sanitised_service_name |-> get_sanitised_service_name(o).ret,
     get_sanitised_instance_name |-> get_sanitised_instance_name(o).ret,
     get_sanitised_deployment_name |-> get_sanitised_deployment_name(o).ret,
     validate |-> validate(o, d).ret]

\* C9: no call of an accessor or of validate changes the object's fields or
\* validate's default params, so what each accessor returns stays the same.
C9_CallsLeaveObjectUnchanged ==
    [][/\ obj' = obj
       /\ validate_default' = validate_default
       /\ validate_default' = VALIDATE_PARAMS
       /\ AccessorResults(obj', validate_default')
              = AccessorResults(obj, validate_default)]_vars

C9_Witness ==
    /\ Called("get_bounce_method")
    /\ "registrations" \in DOMAIN obj.config_dict
    /\ obj.branch_dict # None
    /\ validate_default = VALIDATE_PARAMS

-----------------------------------------------------------------------------
(* Properties of cr_id (specification SpecCrId) *)

\* C8: cr_id returns exactly the keys group, version, namespace, plural and
\* name; group, version and plural are fixed, namespace is what
\* get_kubernetes_namespace returns, and name is the same on every call with
\* the same (service, instance), whatever was called in between.
C8_CrIdFixedAndStable ==
    Called("cr_id") =>
        /\ DOMAIN last.ret = {"group", "version", "namespace", "plural", "name"}
        /\ last.ret.group = <<"yelp.com">>
        /\ last.ret.version = <<"v1alpha1">>
        /\ last.ret.plural = <<"vitess">>
        /\ last.ret.namespace = get_kubernetes_namespace(obj).ret
        /\ last.ret.namespace = <<"paasta-vitess">>
        /\ (probe.call.name = "cr_id" /\ probe.call.args = last.call.args)
               => probe.ret.name = last.ret.name

C8_Witness ==
    /\ Called("cr_id")
    /\ probe.call.name = "cr_id"
    /\ probe.call.args = last.call.args
    /\ last.call.args = << <<"S","_","q">>, <<"H","_","x">> >>
    /\ last.ret.name = <<"s","-","-","q","-","h","-","-","x">>

-----------------------------------------------------------------------------
(* Properties of load_vitess_instance_config (specification SpecLoad) *)

Returned == load.status = "done" /\ ~load.out.raised

\* the service-level configuration the call read
ServiceLevel == IF load.service = soa.service THEN soa.general ELSE <<>>

\* the instance-level configuration the call read
InstanceLevel == soa.files[load.out.instance_type][load.instance]

\* m holds k as d and o combine it: the value of the only side that has k,
\* the two mappings combined key by key, and o's value otherwise
MergedAt(m, d, o, k) ==
    IF k \notin DOMAIN o THEN m[k] = d[k]
    ELSE IF k \notin DOMAIN d THEN m[k] = o[k]
    ELSE IF d[k].t = "map" /\ o[k].t = "map"
         THEN /\ m[k].t = "map"
              /\ DOMAIN m[k].v = DOMAIN d[k].v \cup DOMAIN o[k].v
              /\ \A j \in DOMAIN m[k].v :
                     m[k].v[j] = IF j \in DOMAIN o[k].v THEN o[k].v[j] ELSE d[k].v[j]
         ELSE m[k] = o[k]

\* C6: the returned object's config_dict holds every key of the service-level
\* and of the instance-level configuration; nested mappings present in both
\* are merged key by key, anything else present in both takes the
\* instance-level value (a list is replaced), with load_deployments or not.
C6_ConfigIsDeepMerge ==
    Returned =>
        LET m == load.out.ret.config_dict
        IN  /\ DOMAIN m = DOMAIN ServiceLevel \cup DOMAIN InstanceLevel
            /\ \A k \in DOMAIN m : MergedAt(m, ServiceLevel, InstanceLevel, k)

C6_Witness ==
    /\ Returned
    /\ ~load.load_deployments
    /\ {"env", "registrations", "deploy_group"} \subseteq DOMAIN ServiceLevel
    /\ "replicas" \in DOMAIN ServiceLevel \ DOMAIN InstanceLevel
    /\ ServiceLevel["env"].t = "map"
    /\ "env" \in DOMAIN InstanceLevel /\ InstanceLevel["env"].t = "map"
    /\ DOMAIN load.out.ret.config_dict["env"].v = {"a", "b", "c"}
    /\ load.out.ret.config_dict["env"].v["b"] = IntV(3)
    /\ load.out.ret.config_dict["registrations"].v = << <<"c",".","d">>, <<"a","b">> >>

\* the key the deployments index is looked up by for the returned object
LookupKey ==
    LET m == load.out.ret.config_dict
    IN  <<load.service,
          <<"paasta-">> \o load.cluster \o <<".">> \o load.instance,
          IF "deploy_group" \in DOMAIN m THEN m["deploy_group"].v
          ELSE load.cluster \o <<".">> \o load.instance>>

\* C7: with load_deployments the returned branch_dict is the index entry
\* under (service, branch, deploy_group) of the merged config, and absent
\* (None) when the index has none; without load_deployments the index is not
\* read and branch_dict is None; only a missing instance configuration makes
\* the load raise.
C7_BranchDictFromIndex ==
    load.status = "done" =>
        /\ (Returned /\ load.load_deployments) =>
               /\ load.out.deployments_reads = 1
               /\ load.out.ret.branch_dict =
                      IF LookupKey \in DOMAIN soa.deployments
                      THEN soa.deployments[LookupKey]
                      ELSE None
        /\ ~load.load_deployments =>
               /\ load.out.deployments_reads = 0
               /\ ~load.out.raised => load.out.ret.branch_dict = None
        /\ load.out.raised <=>
               ~(/\ load.service = soa.service
                 /\ load.cluster = soa.cluster
                 /\ load.instance \in DOMAIN soa.files[load.out.instance_type])

C7_Witness ==
    /\ Returned
    /\ load.load_deployments
    /\ "deploy_group" \in DOMAIN ServiceLevel
    /\ ServiceLevel["deploy_group"] = StrV(<<"dg1">>)
    /\ "deploy_group" \in DOMAIN InstanceLevel
    /\ InstanceLevel["deploy_group"] = StrV(<<"dg2">>)
    /\ <<load.service, LookupKey[2], <<"dg1">>>> \in DOMAIN soa.deployments
    /\ LookupKey \notin DOMAIN soa.deployments
    /\ load.out.ret.branch_dict = None

\* C10: load_vitess_instance_config reads the instance-level overrides under
\* the kind name VitessDeploymentConfig declares as config_filename_prefix,
\* so the entry of that kind is the one merged over the service defaults.
C10_ReadsDeclaredKind ==
    load.status = "done" =>
        /\ load.out.instance_type = config_filename_prefix
        /\ load.instance \in DOMAIN soa.files[config_filename_prefix]
               => /\ ~load.out.raised
                  /\ load.out.ret.config_dict =
                         deep_merge_dictionaries(
                             soa.files[config_filename_prefix][load.instance],
                             ServiceLevel)

====
